---- MODULE Spec2Model ----
(***************************************************************************)
(* A model of the swordle repository: the Wordle scorer                    *)
(* (wordle_solver/simulator.py, WordleSimulator) and the hard-mode solving *)
(* engine (wordle_solver/solvers/hard_mode.py, HardModeSolver).            *)
(*                                                                         *)
(* Conventions.                                                            *)
(*  - A Python str is a sequence of one-character strings; positions are   *)
(*    1-based here and 0-based in the source (position i of the model is   *)
(*    index i-1 of the source, column letter_i / count_i / across_i).      *)
(*  - The DataFrame self.wordbank is the sequence of its rows in row order *)
(*    (every selection of the source keeps row order) plus one flag,       *)
(*    columns, telling whether the frame still has its columns.            *)
(*  - Every call leaves its outcome in the variable call.                  *)
(***************************************************************************)
EXTENDS Integers, Sequences, FiniteSets, TLC

VARIABLES
  wordbank,       \* HardModeSolver.wordbank: the rows, in order
  columns,        \* whether HardModeSolver.wordbank still has its columns
  green_letters,  \* HardModeSolver.green_letters: position -> letter
  guesses,        \* HardModeSolver.guesses
  results,        \* HardModeSolver.results
  score,          \* HardModeSolver.score: the ranking mode
  word,           \* WordleSimulator.word: the hidden word
  n_guesses,      \* WordleSimulator.n_guesses
  max_guesses,    \* WordleSimulator.max_guesses
  Wordle_results, \* WordleSimulator.results
  done,           \* WordleSimulator.done
  pc,             \* position of the driver loop
  call            \* the last call: its operation, argument, outcome and value

vars == << wordbank, columns, green_letters, guesses, results, score,
           word, n_guesses, max_guesses, Wordle_results, done, pc, call >>

solver_vars == << wordbank, columns, green_letters, guesses, results, score >>

simulator_vars == << word, n_guesses, max_guesses, Wordle_results, done >>

(***************************************************************************)
(* Configuration and bounds.                                               *)
(***************************************************************************)

\* HardModeSolver(n_letters=...): the word length of the session.
n_letters == 3

\* The letters of the modelled word list, in alphabetical order.
Alphabet == << "a", "b", "c" >>

\* Bound: no more than MaxCalls entries in each history list.
MaxCalls == 2

Min(a, b) == IF a < b THEN a ELSE b

\* Every sequence of length k over the sequence of symbols syms, in the
\* lexicographic order syms induces.
RECURSIVE AllSeqs(_, _)
AllSeqs(syms, k) ==
  IF k = 0 THEN << <<>> >>
  ELSE LET shorter == AllSeqs(syms, k - 1)
           n == Len(syms)
       IN [ j \in 1..(Len(shorter) * n) |->
              Append(shorter[((j - 1) \div n) + 1], syms[((j - 1) % n) + 1]) ]

\* The word list that reset() reads from data/sgb.txt: a deduplicated,
\* ordered list of words of n_letters letters. The model takes, in
\* alphabetical order, the words over Alphabet that hold its last letter at
\* most once: words with one, two and three distinct letters, with repeated
\* letters, and anagrams of one another.
WordList ==
  LET rare == Alphabet[Len(Alphabet)]
      listed(w) == Cardinality({ i \in 1..Len(w) : w[i] = rare }) <= 1
  IN SelectSeq(AllSeqs(Alphabet, n_letters), listed)

Range(s) == { s[k] : k \in 1..Len(s) }

\* The values of the constructor's score parameter that name a score column.
ScoreModes == { "inplace", "across", "combined" }

\* The feedback symbols: G green, Y yellow, K black.
Symbols == << "G", "Y", "K" >>

FeedbackOfLen(k) == Range(AllSeqs(Symbols, k))

(***************************************************************************)
(* HardModeSolver.wordbank_features                                        *)
(***************************************************************************)

\* Column letter_i of a row: the word's letter, '_' at a green position.
letter(w, i, green) == IF i \in DOMAIN green THEN "_" ELSE w[i]

\* letter_counts[letter_i][l]: how many rows have l in column letter_i; the
\* table of a green position is empty.
letter_counts(rows, green, i, l) ==
  IF i \in DOMAIN green THEN 0
  ELSE Cardinality({ k \in 1..Len(rows) : letter(rows[k].word, i, green) = l })

\* A count_i that counts a green position like any other.
count_with_locked(rows, green, w, i) ==
  Cardinality({ k \in 1..Len(rows) : rows[k].word[i] = w[i] })

\* Column count_i of the row of word w.
count(rows, green, w, i) ==
  IF i \in DOMAIN green THEN 0
  ELSE letter_counts(rows, green, i, letter(w, i, green))

\* across[l]: the sum of the position tables' counts of l; across['_'] = 0.
RECURSIVE acrossSum(_, _, _, _)
acrossSum(rows, green, l, i) ==
  IF i > n_letters THEN 0
  ELSE letter_counts(rows, green, i, l) + acrossSum(rows, green, l, i + 1)

across(rows, green, l) == IF l = "_" THEN 0 ELSE acrossSum(rows, green, l, 1)

\* Column repeat_i: letter_i equals letter_j for some j < i.
repeat(w, i, green) ==
  \E j \in 1..(i - 1) : letter(w, j, green) = letter(w, i, green)

RECURSIVE inplaceSum(_, _, _, _)
inplaceSum(rows, green, w, i) ==
  IF i > n_letters THEN 0
  ELSE count(rows, green, w, i) + inplaceSum(rows, green, w, i + 1)

inplace_score(rows, green, w) == inplaceSum(rows, green, w, 1)

RECURSIVE acrossScoreSum(_, _, _, _)
acrossScoreSum(rows, green, w, i) ==
  IF i > n_letters THEN 0
  ELSE (IF repeat(w, i, green) THEN 0
        ELSE across(rows, green, letter(w, i, green)))
       + acrossScoreSum(rows, green, w, i + 1)

across_score(rows, green, w) == acrossScoreSum(rows, green, w, 1)

combined_score(rows, green, w) ==
  inplace_score(rows, green, w) + across_score(rows, green, w)

\* The frame wordbank_features leaves: the columns word and no_green_word
\* kept, the three score columns computed from the rows and green_letters.
wordbank_features(rows, green) ==
  [ k \in 1..Len(rows) |->
      [ word |-> rows[k].word,
        no_green_word |-> rows[k].no_green_word,
        inplace_score |-> inplace_score(rows, green, rows[k].word),
        across_score |-> across_score(rows, green, rows[k].word),
        combined_score |-> combined_score(rows, green, rows[k].word) ] ]

(***************************************************************************)
(* HardModeSolver.reset and the constructor                                *)
(***************************************************************************)

NoGreen == [ i \in {} |-> "_" ]

\* The frame reset() builds: one row per word of the list, no_green_word a
\* copy of word, the features computed with no green letters.
FreshWordbank ==
  wordbank_features(
    [ k \in 1..Len(WordList) |->
        [ word |-> WordList[k], no_green_word |-> WordList[k] ] ],
    NoGreen)

NoCall == [ op |-> "init", arg |-> <<>>, outcome |-> "ok", value |-> <<>> ]

\* A reset() that reloads the word list and forgets the histories.
reset_keeps_history ==
  /\ wordbank' = FreshWordbank
  /\ columns' = TRUE
  /\ green_letters' = NoGreen
  /\ call' = [ op |-> "reset", arg |-> <<>>, outcome |-> "ok", value |-> <<>> ]
  /\ UNCHANGED << guesses, results, score >>

reset ==
  /\ wordbank' = FreshWordbank
  /\ columns' = TRUE
  /\ green_letters' = NoGreen
  /\ guesses' = <<>>
  /\ results' = <<>>
  /\ call' = [ op |-> "reset", arg |-> <<>>, outcome |-> "ok", value |-> <<>> ]
  /\ UNCHANGED score

(***************************************************************************)
(* HardModeSolver.guess                                                    *)
(***************************************************************************)

ScoreColumn(row, mode) ==
  CASE mode = "inplace" -> row.inplace_score
    [] mode = "across" -> row.across_score
    [] OTHER -> row.combined_score

\* sort_values with ascending=True: a row holding the minimum comes first.
FirstSortedAscending(rows, mode) ==
  { k \in 1..Len(rows) :
      \A j \in 1..Len(rows) :
        ScoreColumn(rows[k], mode) <= ScoreColumn(rows[j], mode) }

\* The rows that sort_values(by=<mode>_score, ascending=False) may put
\* first: the sort is pandas' default quicksort, which is not stable, so any
\* row holding the maximum may come first.
FirstSorted(rows, mode) ==
  { k \in 1..Len(rows) :
      \A j \in 1..Len(rows) :
        ScoreColumn(rows[j], mode) <= ScoreColumn(rows[k], mode) }

\* A guess() that guards the lookup and falls back on an empty word: it
\* returns normally on an empty frame and records the fallback.
guess_unguarded ==
  /\ IF ~columns \/ wordbank = <<>>
     THEN /\ guesses' = Append(guesses, <<>>)
          /\ call' = [ op |-> "guess", arg |-> <<>>, outcome |-> "ok",
                       value |-> <<>> ]
     ELSE \E k \in FirstSorted(wordbank, score) :
            /\ guesses' = Append(guesses, wordbank[k].word)
            /\ call' = [ op |-> "guess", arg |-> <<>>, outcome |-> "ok",
                         value |-> wordbank[k].word ]
  /\ UNCHANGED << wordbank, columns, green_letters, results, score >>

\* guess(): a frame without columns raises KeyError in sort_values, an empty
\* frame raises IndexError in .iloc[0, 0]; both before guesses.append.
guess ==
  /\ IF ~columns
     THEN /\ call' = [ op |-> "guess", arg |-> <<>>, outcome |-> "KeyError",
                       value |-> <<>> ]
          /\ UNCHANGED guesses
     ELSE IF wordbank = <<>>
     THEN /\ call' = [ op |-> "guess", arg |-> <<>>, outcome |-> "IndexError",
                       value |-> <<>> ]
          /\ UNCHANGED guesses
     ELSE \E k \in FirstSorted(wordbank, score) :
            /\ guesses' = Append(guesses, wordbank[k].word)
            /\ call' = [ op |-> "guess", arg |-> <<>>, outcome |-> "ok",
                         value |-> wordbank[k].word ]
  /\ UNCHANGED << wordbank, columns, green_letters, results, score >>

(***************************************************************************)
(* HardModeSolver.load_result                                              *)
(***************************************************************************)

\* g in x
contains(x, g) == \E j \in 1..Len(x) : x[j] = g

\* x.str.slice_replace(i, i+1, '_') at a position inside x
slice_replace(x, i) == [ x EXCEPT ![i] = "_" ]

\* The rows kept by the green branch, their no_green_word blanked at i.
green_rows(rows, i, g) ==
  LET keep(row) == row.word[i] = g
      kept == SelectSeq(rows, keep)
  IN [ k \in 1..Len(kept) |->
         [ kept[k] EXCEPT !.no_green_word = slice_replace(@, i) ] ]

\* A black branch that keeps every row.
black_rows_all_kept(rows, g) == rows

\* The rows kept by the black branch.
black_rows(rows, g) ==
  LET keep(row) == ~contains(row.no_green_word, g)
  IN SelectSeq(rows, keep)

\* A yellow branch that selects from the whole word list again.
yellow_rows_reloaded(rows, i, g) ==
  LET keep(row) == contains(row.no_green_word, g) /\ row.word[i] # g
      all == [ k \in 1..Len(WordList) |->
                 [ word |-> WordList[k], no_green_word |-> WordList[k] ] ]
  IN SelectSeq(all, keep)

\* The rows kept by the yellow branch.
yellow_rows(rows, i, g) ==
  LET keep(row) == contains(row.no_green_word, g) /\ row.word[i] # g
  IN SelectSeq(rows, keep)

\* The hard-mode filtering loop from position i on, over zip(last_guess,
\* result). st = [rows, columns, green, raised].
\*   - a green position is skipped;
\*   - every branch reads a column, which raises KeyError in a frame that
\*     has lost its columns;
\*   - the black branch selects with the Series that
\*     no_green_word.apply(...) returns: on an empty frame that Series is
\*     empty with dtype object, which pandas does not take as a boolean
\*     mask but as an (empty) list of column labels, so the frame loses its
\*     columns; the green and the yellow branch select with a comparison,
\*     whose result is boolean also when empty.
RECURSIVE filter_from(_, _, _, _)
filter_from(i, last_guess, result, st) ==
  IF i > Min(Len(last_guess), Len(result)) THEN st
  ELSE IF i \in DOMAIN st.green
  THEN filter_from(i + 1, last_guess, result, st)
  ELSE IF ~st.columns THEN [ st EXCEPT !.raised = TRUE ]
  ELSE LET g == last_guess[i]
           r == result[i]
       IN IF r = "G"
          THEN filter_from(i + 1, last_guess, result,
                 [ st EXCEPT !.rows = green_rows(st.rows, i, g),
                             !.green = (i :> g) @@ st.green ])
          ELSE IF r = "K"
          THEN IF st.rows = <<>>
               THEN filter_from(i + 1, last_guess, result,
                      [ st EXCEPT !.columns = FALSE ])
               ELSE filter_from(i + 1, last_guess, result,
                      [ st EXCEPT !.rows = black_rows(st.rows, g) ])
          ELSE filter_from(i + 1, last_guess, result,
                 [ st EXCEPT !.rows = yellow_rows(st.rows, i, g) ])

hard_mode_filtering(last_guess, result, rows, green) ==
  filter_from(1, last_guess, result,
    [ rows |-> rows, columns |-> TRUE, green |-> green, raised |-> FALSE ])

\* load_result(result): results.append comes first; guesses[-1] raises
\* IndexError when there is no guess; selecting key_cols raises KeyError in
\* a frame without columns; then the filtering loop and wordbank_features,
\* which raises KeyError in a frame without columns.
load_result(result) ==
  /\ results' = Append(results, result)
  /\ IF guesses = <<>>
     THEN /\ call' = [ op |-> "load_result", arg |-> result,
                       outcome |-> "IndexError", value |-> <<>> ]
          /\ UNCHANGED << wordbank, columns, green_letters >>
     ELSE IF ~columns
     THEN /\ call' = [ op |-> "load_result", arg |-> result,
                       outcome |-> "KeyError", value |-> <<>> ]
          /\ UNCHANGED << wordbank, columns, green_letters >>
     ELSE LET st == hard_mode_filtering(guesses[Len(guesses)], result,
                                        wordbank, green_letters)
          IN /\ green_letters' = st.green
             /\ IF st.raised \/ ~st.columns
                THEN /\ wordbank' = <<>>
                     /\ columns' = FALSE
                     /\ call' = [ op |-> "load_result", arg |-> result,
                                  outcome |-> "KeyError", value |-> <<>> ]
                ELSE /\ wordbank' = wordbank_features(st.rows, st.green)
                     /\ columns' = TRUE
                     /\ call' = [ op |-> "load_result", arg |-> result,
                                  outcome |-> "ok", value |-> <<>> ]
  /\ UNCHANGED << guesses, score >>

(***************************************************************************)
(* WordleSimulator._result: the scorer                                     *)
(***************************************************************************)

\* [j for j in range(len(self.word)) if guess[i] == filtered_word[j]][0]
y_filter(filtered_word, c) ==
  CHOOSE j \in 1..Len(filtered_word) :
    /\ filtered_word[j] = c
    /\ \A k \in 1..(j - 1) : filtered_word[k] # c

\* The first loop from position i on: greens, blanked in filtered_word; the
\* other positions collected in not_green_i. self.word[i] raises IndexError
\* at a position past the end of the hidden word.
RECURSIVE green_pass(_, _, _, _)
green_pass(i, hidden, g, st) ==
  IF i > Len(g) THEN st
  ELSE IF i > Len(hidden) THEN [ st EXCEPT !.raised = TRUE ]
  ELSE IF g[i] = hidden[i]
  THEN green_pass(i + 1, hidden, g,
         [ st EXCEPT !.result[i] = "G", !.filtered_word[i] = "_" ])
  ELSE green_pass(i + 1, hidden, g,
         [ st EXCEPT !.not_green_i = Append(@, i) ])

\* filtered_word[y_filter] = '_', left undone: the occurrence stays claimable.
blank_claimed_skipped(filtered_word, c) == filtered_word

\* filtered_word[y_filter] = '_': the first occurrence of c is used up.
blank_claimed(filtered_word, c) ==
  [ filtered_word EXCEPT ![y_filter(filtered_word, c)] = "_" ]

\* The second loop from the k-th entry of not_green_i on: yellow while the
\* letter is left in filtered_word, its first occurrence blanked; else black.
RECURSIVE yellow_pass(_, _, _)
yellow_pass(k, g, st) ==
  IF k > Len(st.not_green_i) THEN st
  ELSE LET i == st.not_green_i[k]
       IN IF contains(st.filtered_word, g[i])
          THEN yellow_pass(k + 1, g,
                 [ st EXCEPT !.result[i] = "Y",
                             !.filtered_word = blank_claimed(@, g[i]) ])
          ELSE yellow_pass(k + 1, g, [ st EXCEPT !.result[i] = "K" ])

\* A _result whose second loop runs over not_green_i from right to left.
_result_right_to_left(hidden, g) ==
  LET greens == green_pass(1, hidden, g,
                  [ result |-> g, filtered_word |-> hidden,
                    not_green_i |-> <<>>, raised |-> FALSE ])
      n == Len(greens.not_green_i)
      reversed == [ greens EXCEPT !.not_green_i =
                      [ k \in 1..n |-> greens.not_green_i[n + 1 - k] ] ]
  IN IF greens.raised
     THEN [ outcome |-> "IndexError", value |-> <<>> ]
     ELSE [ outcome |-> "ok", value |-> yellow_pass(1, g, reversed).result ]

\* _result(guess) of a simulator whose word is hidden: the outcome and, when
\* it returns, the feedback string.
_result(hidden, g) ==
  LET greens == green_pass(1, hidden, g,
                  [ result |-> g, filtered_word |-> hidden,
                    not_green_i |-> <<>>, raised |-> FALSE ])
  IN IF greens.raised
     THEN [ outcome |-> "IndexError", value |-> <<>> ]
     ELSE [ outcome |-> "ok", value |-> yellow_pass(1, g, greens).result ]

(***************************************************************************)
(* WordleSimulator.guess                                                   *)
(***************************************************************************)

\* str.lower() on the letters the model uses.
lower_letter(c) ==
  CASE c = "A" -> "a"
    [] c = "B" -> "b"
    [] c = "C" -> "c"
    [] OTHER -> c

lower(w) == [ i \in 1..Len(w) |-> lower_letter(w[i]) ]

\* all([r == 'G' for r in list(result)])
all_green(result) == \A i \in 1..Len(result) : result[i] = "G"

\* The phony result of a guess past max_guesses.
XXXXX == << "X", "X", "X", "X", "X" >>

\* WordleSimulator.__init__: max_guesses: int=6
default_max_guesses == 6

\* Wordle.guess(w). The rendering (unicode_results, alpha_blocks_results,
\* chosen_alphabet, the prints) is left out: it reads the result and changes
\* nothing the solver or the loop reads.
Wordle_guess(w) ==
  LET g == lower(w)
      n == n_guesses + 1
      counted == IF n = max_guesses THEN TRUE ELSE done
      r == _result(word, g)
  IN /\ n_guesses' = n
     /\ IF n <= max_guesses
        THEN IF r.outcome = "ok"
             THEN /\ Wordle_results' = Append(Wordle_results, r.value)
                  /\ done' = (counted \/ all_green(r.value))
                  /\ call' = [ op |-> "Wordle.guess", arg |-> w,
                               outcome |-> "ok", value |-> r.value ]
             ELSE /\ UNCHANGED Wordle_results
                  /\ done' = counted
                  /\ call' = [ op |-> "Wordle.guess", arg |-> w,
                               outcome |-> r.outcome, value |-> <<>> ]
        ELSE /\ UNCHANGED Wordle_results
             /\ done' = counted
             /\ call' = [ op |-> "Wordle.guess", arg |-> w,
                          outcome |-> "ok", value |-> XXXXX ]
     /\ UNCHANGED << word, max_guesses >>

(***************************************************************************)
(* Spec: the engine under any caller. The caller calls guess, load_result  *)
(* and reset in any order; the feedback it passes is the score of the last *)
(* guess against a word of its choice, a new choice at every call, so that *)
(* feedback contradicting earlier feedback is included; with no guess made *)
(* it passes all green or all black. It asks for a guess only when every   *)
(* guess so far has had an answer; it may answer a guess more than once    *)
(* and answer before any guess.                                            *)
(***************************************************************************)

last_guess == guesses[Len(guesses)]

PlayedFeedback(g) == { _result(WordList[k], g).value : k \in 1..Len(WordList) }

NoGuessFeedback ==
  { [ i \in 1..n_letters |-> "G" ], [ i \in 1..n_letters |-> "K" ] }

CallerFeedback ==
  IF guesses = <<>> THEN NoGuessFeedback ELSE PlayedFeedback(last_guess)

Init ==
  /\ wordbank = FreshWordbank
  /\ columns = TRUE
  /\ green_letters = NoGreen
  /\ guesses = <<>>
  /\ results = <<>>
  /\ score \in ScoreModes
  /\ word = <<>>
  /\ n_guesses = 0
  /\ max_guesses = default_max_guesses
  /\ Wordle_results = <<>>
  /\ done = FALSE
  /\ pc = "caller"
  /\ call = NoCall

CallerGuess ==
  /\ Len(guesses) < MaxCalls
  /\ Len(guesses) <= Len(results)
  /\ guess
  /\ UNCHANGED << simulator_vars, pc >>

CallerLoadResult ==
  /\ Len(results) < MaxCalls
  /\ \E result \in CallerFeedback : load_result(result)
  /\ UNCHANGED << simulator_vars, pc >>

CallerReset ==
  /\ reset
  /\ UNCHANGED << simulator_vars, pc >>

Next ==
  \/ CallerGuess
  \/ CallerLoadResult
  \/ CallerReset

Spec == Init /\ [][Next]_vars

(***************************************************************************)
(* SpecShape: the caller of Spec, whose first answer to a guess may also   *)
(* be a feedback string one symbol shorter or longer than n_letters.       *)
(***************************************************************************)

MisshapenFeedback ==
  FeedbackOfLen(n_letters - 1) \cup FeedbackOfLen(n_letters + 1)

CallerLoadMisshapen ==
  /\ guesses # <<>>
  /\ results = <<>>
  /\ \E result \in MisshapenFeedback : load_result(result)
  /\ UNCHANGED << simulator_vars, pc >>

NextShape ==
  \/ CallerGuess
  \/ CallerLoadResult
  \/ CallerLoadMisshapen
  \/ CallerReset

SpecShape == Init /\ [][NextShape]_vars

(***************************************************************************)
(* SpecGame: the driver loop of hard_mode.py,                              *)
(*   while not Wordle.done:                                                *)
(*       guess = HMS.guess(); result = Wordle.guess(guess)                 *)
(*       HMS.load_result(result)                                           *)
(* for any hidden word of the word list and any ranking mode. A call that  *)
(* raises ends the loop at pc = "raised".                                  *)
(***************************************************************************)

InitGame ==
  /\ wordbank = FreshWordbank
  /\ columns = TRUE
  /\ green_letters = NoGreen
  /\ guesses = <<>>
  /\ results = <<>>
  /\ score \in ScoreModes
  /\ word \in Range(WordList)
  /\ n_guesses = 0
  /\ max_guesses = default_max_guesses
  /\ Wordle_results = <<>>
  /\ done = FALSE
  /\ pc = "while"
  /\ call = NoCall

DriverGuess ==
  /\ pc = "while"
  /\ ~done
  /\ guess
  /\ pc' = IF call'.outcome = "ok" THEN "Wordle.guess" ELSE "raised"
  /\ UNCHANGED simulator_vars

DriverWordleGuess ==
  /\ pc = "Wordle.guess"
  /\ Wordle_guess(call.value)
  /\ pc' = IF call'.outcome = "ok" THEN "load_result" ELSE "raised"
  /\ UNCHANGED solver_vars

DriverLoadResult ==
  /\ pc = "load_result"
  /\ load_result(call.value)
  /\ pc' = IF call'.outcome = "ok" THEN "while" ELSE "raised"
  /\ UNCHANGED simulator_vars

DriverExit ==
  /\ pc = "while"
  /\ done
  /\ pc' = "exit"
  /\ UNCHANGED << solver_vars, simulator_vars, call >>

NextGame ==
  \/ DriverGuess
  \/ DriverWordleGuess
  \/ DriverLoadResult
  \/ DriverExit

SpecGame == InitGame /\ [][NextGame]_vars

(***************************************************************************)
(* SpecScore: the scorer as a function. The hidden word and the guess are  *)
(* any two words over Alphabet, of n_letters letters, one fewer or one     *)
(* more; one call of _result, its outcome left in call.                    *)
(***************************************************************************)

ScoreWords ==
  Range(AllSeqs(Alphabet, n_letters - 1))
    \cup Range(AllSeqs(Alphabet, n_letters))
    \cup Range(AllSeqs(Alphabet, n_letters + 1))

InitScore ==
  /\ wordbank = FreshWordbank
  /\ columns = TRUE
  /\ green_letters = NoGreen
  /\ guesses = <<>>
  /\ results = <<>>
  /\ score = "across"
  /\ word \in ScoreWords
  /\ n_guesses = 0
  /\ max_guesses = default_max_guesses
  /\ Wordle_results = <<>>
  /\ done = FALSE
  /\ pc = "score"
  /\ call = NoCall

ScoreCall ==
  /\ pc = "score"
  /\ \E g \in ScoreWords :
       LET r == _result(word, g)
       IN call' = [ op |-> "_result", arg |-> g, outcome |-> r.outcome,
                    value |-> r.value ]
  /\ pc' = "scored"
  /\ UNCHANGED << solver_vars, simulator_vars >>

NextScore == ScoreCall

SpecScore == InitScore /\ [][NextScore]_vars

(***************************************************************************)
(* SpecSim: the simulator under any caller. WordleSimulator(word,           *)
(* max_guesses) is built for a hidden word of the word list and a number   *)
(* of attempts from 0 on; the caller calls guess() any number of times,    *)
(* also after done is set and after a call has raised, with the hidden     *)
(* word, another word of its length, a word in upper case, a shorter and a *)
(* longer word.                                                            *)
(***************************************************************************)

\* Bound: no more than MaxSimCalls calls of WordleSimulator.guess, and
\* max_guesses at most MaxSimCalls.
MaxSimCalls == 3

SimGuesses ==
  { WordList[Len(WordList)],
    << "A", "A", "B" >>,
    SubSeq(WordList[1], 1, n_letters - 1),
    Append(WordList[1], Alphabet[1]) }

InitSim ==
  /\ wordbank = FreshWordbank
  /\ columns = TRUE
  /\ green_letters = NoGreen
  /\ guesses = <<>>
  /\ results = <<>>
  /\ score = "across"
  /\ word \in Range(WordList)
  /\ n_guesses = 0
  /\ max_guesses \in 0..MaxSimCalls
  /\ Wordle_results = <<>>
  /\ done = FALSE
  /\ pc = "play"
  /\ call = NoCall

SimGuess ==
  /\ n_guesses < MaxSimCalls
  /\ \E w \in SimGuesses \cup { word } : Wordle_guess(w)
  /\ UNCHANGED << solver_vars, pc >>

NextSim == SimGuess

SpecSim == InitSim /\ [][NextSim]_vars

(***************************************************************************)
(* Properties.                                                             *)
(***************************************************************************)

\* The candidate pool: the words of the rows of wordbank.
Pool == { wordbank[k].word : k \in 1..Len(wordbank) }

\* The number of positions of w that hold c.
Occurrences(c, w) == Cardinality({ i \in 1..Len(w) : w[i] = c })

RECURSIVE SumOver(_, _)
SumOver(f, S) ==
  IF S = {} THEN 0
  ELSE LET x == CHOOSE y \in S : TRUE
       IN f[x] + SumOver(f, S \ {x})

\* C1. Filtering soundness: in a game driven by the solver against a hidden
\* word of the word list, the hidden word is in the candidate pool after
\* every load_result call.
C1_FilteringSoundness == call.op = "load_result" => word \in Pool

\* C2. Multiset-correct scoring: for a hidden word and a guess of equal
\* length the scorer returns one symbol per position, G exactly where the
\* guess and the hidden word agree, and for every letter c the positions of
\* the guess that hold c and are marked G or Y number
\* min(occurrences of c in the guess, occurrences of c in the hidden word).
C2_MultisetCorrectScoring ==
  (call.op = "_result" /\ Len(call.arg) = Len(word)) =>
    /\ call.outcome = "ok"
    /\ Len(call.value) = Len(word)
    /\ \A i \in 1..Len(word) :
         /\ call.value[i] \in Range(Symbols)
         /\ call.value[i] = "G" <=> call.arg[i] = word[i]
    /\ \A c \in Range(Alphabet) :
         Cardinality({ i \in 1..Len(word) :
                        call.arg[i] = c /\ call.value[i] \in { "G", "Y" } })
           = Min(Occurrences(c, call.arg), Occurrences(c, word))

\* A guess that repeats a letter the hidden word holds fewer times: one
\* occurrence is marked Y and a later one K.
C2_Witness ==
  /\ call.op = "_result"
  /\ call.outcome = "ok"
  /\ Len(call.arg) = Len(word)
  /\ \E i, j \in 1..Len(word) :
       /\ i < j
       /\ call.arg[i] = call.arg[j]
       /\ call.value[i] = "Y"
       /\ call.value[j] = "K"
       /\ Occurrences(call.arg[i], word) > 0

\* C3. Exact self-match: scoring a word against itself returns all G, and
\* a returned feedback is all G only when the guess is the hidden word.
C3_ExactSelfMatch ==
  call.op = "_result" =>
    /\ call.arg = word => (call.outcome = "ok" /\ all_green(call.value))
    /\ (call.outcome = "ok" /\ all_green(call.value)) => call.arg = word

\* C4. Contradiction is reported: a load_result call that filters the
\* candidate pool down to zero words fails; it does not return normally
\* with an empty pool.
C4_ContradictionReported ==
  [][ (call'.op = "load_result" /\ wordbank # <<>> /\ wordbank' = <<>>)
        => call'.outcome # "ok" ]_vars

\* C5. Scoring a guess whose length differs from the hidden word's, longer
\* or shorter, fails: it never returns a feedback string.
C5_LengthMismatchFails ==
  (call.op = "_result" /\ Len(call.arg) # Len(word)) => call.outcome # "ok"

\* C6. load_result with a feedback whose length differs from n_letters
\* fails and changes nothing: the candidate pool, the locked positions and
\* the feedback history are those of before the call.
C6_ShapeMismatchNoMutation ==
  [][ (call'.op = "load_result" /\ Len(call'.arg) # n_letters) =>
        /\ call'.outcome # "ok"
        /\ wordbank' = wordbank
        /\ green_letters' = green_letters
        /\ results' = results ]_vars

\* C7. guess() on an empty candidate pool fails: it returns no word and
\* appends nothing to the guess history.
C7_GuessOnEmptyPoolFails ==
  [][ (call'.op = "guess" /\ wordbank = <<>>) =>
        /\ call'.outcome # "ok"
        /\ call'.value = <<>>
        /\ guesses' = guesses ]_vars

\* guess() has been called on a pool that a contradiction emptied.
C7_Witness ==
  /\ call.op = "guess"
  /\ call.outcome = "IndexError"
  /\ wordbank = <<>>
  /\ results # <<>>

\* C8. Filtering monotonicity: the candidate pool after load_result is a
\* subset of the pool before it, whatever the feedback, and no call other
\* than reset makes the pool grow.
C8_FilteringMonotonicity ==
  [][ call'.op # "reset" =>
        /\ { wordbank'[k].word : k \in 1..Len(wordbank') } \subseteq Pool
        /\ Len(wordbank') <= Len(wordbank) ]_vars

\* A second load_result has narrowed an already narrowed pool further.
C8_Witness ==
  /\ call.op = "load_result"
  /\ call.outcome = "ok"
  /\ Len(results) = 2
  /\ Len(wordbank) > 0
  /\ Len(wordbank) < Len(WordList) - 1

\* The scores as the ranking is described, from the pool and the locked
\* positions: per unlocked position the number of candidates with the same
\* letter there; per distinct letter at the unlocked positions of the word
\* the letter's count over all unlocked positions.
Unlocked == { i \in 1..n_letters : i \notin DOMAIN green_letters }

PositionCount(i, l) ==
  Cardinality({ k \in 1..Len(wordbank) : wordbank[k].word[i] = l })

AcrossFrequency(l) ==
  SumOver([ i \in Unlocked |-> PositionCount(i, l) ], Unlocked)

RankInplace(w) ==
  SumOver([ i \in Unlocked |-> PositionCount(i, w[i]) ], Unlocked)

RankAcross(w) ==
  LET distinct == { w[i] : i \in Unlocked }
  IN SumOver([ l \in distinct |-> AcrossFrequency(l) ], distinct)

Rank(w) ==
  CASE score = "inplace" -> RankInplace(w)
    [] score = "across" -> RankAcross(w)
    [] OTHER -> RankInplace(w) + RankAcross(w)

\* C9 as stated. guess() returns a member of the pool whose score for the
\* configured mode is the maximum over the pool and, among the candidates
\* holding the maximum, the one that comes first in word-list order.
C9_BestGuessFirstOfTies ==
  (call.op = "guess" /\ call.outcome = "ok") =>
    \E k \in 1..Len(wordbank) :
      /\ wordbank[k].word = call.value
      /\ \A j \in 1..Len(wordbank) :
           Rank(wordbank[j].word) <= Rank(call.value)
      /\ \A j \in 1..(k - 1) : Rank(wordbank[j].word) < Rank(call.value)

\* C9 as amended. guess() returns a member of the pool whose score for the
\* configured mode is the maximum over the pool; which of several
\* candidates holding the maximum it returns is not determined.
C9_BestGuessIsMaximal ==
  (call.op = "guess" /\ call.outcome = "ok") =>
    /\ call.value \in Pool
    /\ guesses # <<>> /\ last_guess = call.value
    /\ \A w \in Pool : Rank(w) <= Rank(call.value)

\* guess() has chosen from a narrowed pool with a locked position, in which
\* some candidate scores lower than the one returned.
C9_Witness ==
  /\ call.op = "guess"
  /\ call.outcome = "ok"
  /\ green_letters # NoGreen
  /\ \E w \in Pool : Rank(w) < Rank(call.value)

\* C10. reset() returns the engine to its state after construction: the
\* pool is the full word list with the scores of the full list, and the
\* locked positions, the guess history and the feedback history are empty.
C10_ResetRestoresInitialState ==
  [][ call'.op = "reset" =>
        /\ [ k \in 1..Len(wordbank') |-> wordbank'[k].word ] = WordList
        /\ wordbank' = FreshWordbank
        /\ columns'
        /\ green_letters' = NoGreen
        /\ guesses' = <<>>
        /\ results' = <<>> ]_vars

\* reset() has been called.
C10_Witness == call.op = "reset"

\* C11. In the driver loop against a hidden word of the word list the loop
\* ends only because the hidden word was guessed or the attempts are
\* exhausted: no call raises, the pool is not empty when a guess is due, and
\* at the exit the last score is all G or n_guesses has reached max_guesses.
C11_GameEndsByWinOrExhaustion ==
  /\ pc # "raised"
  /\ (pc = "while" /\ ~done) => wordbank # <<>>
  /\ pc = "exit" =>
       \/ /\ Wordle_results # <<>>
          /\ all_green(Wordle_results[Len(Wordle_results)])
          /\ guesses[Len(guesses)] = word
          /\ Pool = { word }
       \/ n_guesses >= max_guesses

\* The words of the rows left by the filtering loop of load_result(result)
\* once it has processed the positions 1..i of the last guess.
PoolThrough(i, result) ==
  LET st == hard_mode_filtering(last_guess, SubSeq(result, 1, i),
                                wordbank, green_letters)
  IN { st.rows[k].word : k \in 1..Len(st.rows) }

\* The positions load_result(result) leaves unlocked.
UnlockedAfter(result) ==
  { k \in 1..n_letters : k \notin DOMAIN green_letters /\ result[k] # "G" }

\* C12. G before K within one load_result call: when the guess holds the
\* same letter c at position j, marked G, and at position i, marked K, in
\* either order of i and j, a candidate that has c at position j and at no
\* position left unlocked is kept by the K filter of position i.
C12_ExactBeforeAbsent ==
  [][ (call'.op = "load_result" /\ guesses # <<>> /\ columns) =>
        LET result == call'.arg
        IN \A i, j \in 1..n_letters :
             ( /\ i # j
               /\ i \notin DOMAIN green_letters
               /\ j \notin DOMAIN green_letters
               /\ last_guess[i] = last_guess[j]
               /\ result[j] = "G"
               /\ result[i] = "K" ) =>
             \A w \in PoolThrough(i - 1, result) :
               ( /\ w[j] = last_guess[j]
                 /\ \A k \in UnlockedAfter(result) : w[k] # last_guess[i] )
               => w \in PoolThrough(i, result) ]_vars

\* C13. Y filtering: after load_result with Y at an unlocked position i,
\* every candidate left has a letter other than the guess's at position i
\* and holds the guess's letter of position i at a position that is not
\* locked, the positions this feedback marks G counting as locked.
C13_PresentFiltering ==
  [][ (call'.op = "load_result" /\ call'.outcome = "ok" /\ guesses # <<>>) =>
        LET result == call'.arg
        IN \A i \in 1..n_letters :
             (i \notin DOMAIN green_letters /\ result[i] = "Y") =>
               \A k \in 1..Len(wordbank') :
                 LET w == wordbank'[k].word
                 IN /\ w[i] # last_guess[i]
                    /\ \E p \in UnlockedAfter(result) : w[p] = last_guess[i]
    ]_vars

\* C14. Locked positions are write-once: until reset() a locked position
\* keeps its letter; load_result applies no filtering for it, whatever the
\* symbol the feedback has there; and it adds nothing to the per-position
\* counts, to inplace_score and to across_score, which are sums over the
\* unlocked positions only.
C14_LockedWriteOnce ==
  /\ [](\A k \in 1..Len(wordbank) :
          /\ wordbank[k].inplace_score = RankInplace(wordbank[k].word)
          /\ wordbank[k].across_score = RankAcross(wordbank[k].word))
  /\ [][ call'.op # "reset" =>
           /\ \A i \in DOMAIN green_letters :
                /\ i \in DOMAIN green_letters'
                /\ green_letters'[i] = green_letters[i]
           /\ (call'.op = "load_result" /\ guesses # <<>> /\ columns) =>
                LET filtered == hard_mode_filtering(last_guess, call'.arg,
                                                    wordbank, green_letters)
                IN \A i \in DOMAIN green_letters :
                     \A s \in Range(Symbols) \ { call'.arg[i] } :
                       hard_mode_filtering(last_guess,
                           [ call'.arg EXCEPT ![i] = s ],
                           wordbank, green_letters) = filtered ]_vars

\* load_result has returned for a feedback that has another symbol than G
\* at a position locked before the call, and candidates are left.
C14_Witness ==
  /\ call.op = "load_result"
  /\ call.outcome = "ok"
  /\ wordbank # <<>>
  /\ \E i \in DOMAIN green_letters : call.arg[i] # "G"

\* C15. Leftmost yellow first: of two positions i < j of the guess that hold
\* the same letter and are both not G, position i is Y when position j is Y
\* (a K never comes before a Y of the same letter).
C15_LeftmostPresentFirst ==
  (call.op = "_result" /\ call.outcome = "ok") =>
    \A i, j \in 1..Len(call.arg) :
      ( /\ i < j
        /\ call.arg[i] = call.arg[j]
        /\ call.value[i] # "G"
        /\ call.value[j] # "G"
        /\ call.value[j] = "Y" ) => call.value[i] = "Y"

\* A guess holds one letter three times and the hidden word holds it twice:
\* one occurrence is G, the leftmost of the two others Y, the last K.
C15_Witness ==
  /\ call.op = "_result"
  /\ call.outcome = "ok"
  /\ \E i, j, k \in 1..Len(call.arg) :
       /\ i < j
       /\ call.arg[i] = call.arg[j]
       /\ call.arg[k] = call.arg[i]
       /\ call.value[k] = "G"
       /\ call.value[i] = "Y"
       /\ call.value[j] = "K"

\* C16. Round ordering: the feedback history is never longer than the guess
\* history, and a load_result call made when no guess is awaiting feedback
\* (every guess already answered, or no guess made) changes neither the pool
\* nor the histories.
C16_RoundOrdering ==
  [][ /\ Len(results') <= Len(guesses')
      /\ (call'.op = "load_result" /\ Len(results) >= Len(guesses)) =>
           /\ wordbank' = wordbank
           /\ guesses' = guesses
           /\ results' = results ]_vars

\* C17. Progress: when the last guess is in the pool (guess() returned it
\* from the pool as it is) and the feedback has Y or K at an unlocked
\* position, load_result removes the guessed word from the pool and the
\* pool shrinks; so in the driver loop every round that is not a win leaves
\* a strictly smaller pool.
C17_GuessRemovedFromPool ==
  /\ [][ ( /\ call'.op = "load_result"
           /\ guesses # <<>>
           /\ last_guess \in Pool
           /\ \E i \in 1..n_letters :
                /\ i \notin DOMAIN green_letters
                /\ call'.arg[i] \in { "Y", "K" } ) =>
           /\ \A k \in 1..Len(wordbank') : wordbank'[k].word # last_guess
           /\ Len(wordbank') < Len(wordbank) ]_vars
  /\ [][ ( /\ pc = "load_result"
           /\ call'.op = "load_result"
           /\ ~all_green(call'.arg) ) =>
           Len(wordbank') < Len(wordbank) ]_vars

\* A round of the driver loop that was not a win has left a smaller pool
\* that still holds the hidden word.
C17_Witness ==
  /\ call.op = "load_result"
  /\ call.outcome = "ok"
  /\ ~all_green(call.arg)
  /\ last_guess \notin Pool
  /\ word \in Pool
  /\ Len(results) >= 2

\* C18. Simulator attempt bound: the number of recorded results is
\* min(n_guesses, max_guesses); a call beyond max_guesses returns 'XXXXX'
\* and leaves the recorded results unchanged.
C18_AttemptBound ==
  /\ [](Len(Wordle_results) = Min(n_guesses, max_guesses))
  /\ [][ (call'.op = "Wordle.guess" /\ n_guesses >= max_guesses) =>
           /\ call'.outcome = "ok"
           /\ call'.value = XXXXX
           /\ Wordle_results' = Wordle_results ]_vars

\* C19. Simulator termination flag: done holds once an all-G result has
\* been returned and once n_guesses has reached max_guesses, whatever
\* max_guesses is, and done never goes back to false; so after every call
\* of guess() a loop `while not done` goes on only while n_guesses is less
\* than max_guesses.
C19_DoneFlag ==
  /\ []((call.op = "Wordle.guess" /\ n_guesses >= max_guesses) => done)
  /\ []((call.op = "Wordle.guess" /\ call.outcome = "ok"
           /\ all_green(call.value)) => done)
  /\ [][ done => done' ]_vars

====
